---- MODULE Spec2Model ----
(***************************************************************************)
(* Model of kml-path-lifter.py: the interval cut solver `lift` and the     *)
(* per-axis adjustment done by `process_kml`.                              *)
(*                                                                         *)
(* Numbers.  The program computes with mpmath reals.  The only operation   *)
(* that leaves the integers is the halving in the returned midpoint        *)
(* o0 + (o1 - o0) / 2, where o0 and o1 are input values.  All inputs of    *)
(* the model are even integers and all periods are even, so every          *)
(* difference o1 - o0 is even and the halving is exact in the integers.    *)
(*                                                                         *)
(* Optional results.  Python's None is the empty set and a value v is the  *)
(* singleton {v}.                                                          *)
(***************************************************************************)
EXTENDS Integers, Sequences, FiniteSets, TLC

\* ------------------------------------------------------------------ bounds
MaxLen == 5          \* longest sequence handed to lift
MaxK == 5            \* input values are 0, 2, ..., 2 * MaxK
MaxPeriod == 6       \* periods are 8, 10, ..., 2 * MaxPeriod
MaxPts == 3          \* most coordinates in one <coordinates> element

\* ----------------------------------------------------------- input spaces
Vals == {2 * k : k \in 0..MaxK}
Periods == {2 * k : k \in 4..MaxPeriod}
RECURSIVE SeqsUpTo(_, _)
SeqsUpTo(S, n) ==
    IF n = 0 THEN {<<>>}
    ELSE LET shorter == SeqsUpTo(S, n - 1)
         IN  shorter \cup {Append(s, v) : s \in {t \in shorter : Len(t) = n - 1}, v \in S}

LonVals == {-170, 0, 170}
LatVals == {-80, 80}
ZVals == {0, 100}

\* ------------------------------------------------------------ the program
None == {}
Some(v) == {v}
Val(opt) == CHOOSE v \in opt : TRUE

Max(a, b) == IF a >= b THEN a ELSE b
Min(a, b) == IF a <= b THEN a ELSE b

Coordinates(longitude, latitude, z) ==
    [longitude |-> longitude, latitude |-> latitude, z |-> z]

tostring(c) == <<c.longitude, c.latitude, c.z>>

minn(a, b) ==
    IF a = None THEN b
    ELSE IF b = None THEN a
    ELSE Some(Min(Val(a), Val(b)))

maxn_slip(a, b) ==
    IF a = None THEN b
    ELSE IF b = None THEN a
    ELSE Some(Min(Val(a), Val(b)))

maxn(a, b) ==
    IF a = None THEN b
    ELSE IF b = None THEN a
    ELSE Some(Max(Val(a), Val(b)))

arcs(l) == [i \in 1..(Len(l) - 1) |-> <<l[i], l[i + 1]>>]

\* line 87: the backward way round is strictly shorter, the arc "wants y < x"
wants_descending_flipped(x, y, m) == (x - y) % m > (y - x) % m

wants_descending_tie(x, y, m) == (x - y) % m <= (y - x) % m

wants_descending(x, y, m) == (x - y) % m < (y - x) % m

\* lines 87-100: one iteration of the first loop
classify(st, x, y, m) ==
    IF wants_descending(x, y, m)
    THEN IF x < y
         THEN [st EXCEPT !.o0 = maxn(@, Some(x)), !.o1 = minn(@, Some(y))]
         ELSE [st EXCEPT !.keep = Append(@, <<y, x>>)]
    ELSE IF y < x
         THEN [st EXCEPT !.o0 = maxn(@, Some(y)), !.o1 = minn(@, Some(x))]
         ELSE [st EXCEPT !.keep = Append(@, <<x, y>>)]

RECURSIVE first_pass_from(_, _, _, _)
first_pass_from(a, m, i, st) ==
    IF i > Len(a) THEN st
    ELSE first_pass_from(a, m, i + 1, classify(st, a[i][1], a[i][2], m))

\* lines 81-100: o0, o1 and keep after the first loop
first_pass(l, m) ==
    first_pass_from(arcs(l), m, 1, [o0 |-> None, o1 |-> None, keep |-> <<>>])

\* lines 106-107
widen(o0, x, y) == IF x <= o0 THEN Max(o0, y) ELSE o0

RECURSIVE widen_all(_, _, _)
widen_all(keep, i, o0) ==
    IF i > Len(keep) THEN o0
    ELSE widen_all(keep, i + 1, widen(o0, keep[i][1], keep[i][2]))

\* lines 110-111
tighten_slip(o0, o1, x) == IF x >= o0 THEN Min(o1, x) ELSE o1

tighten(o0, o1, x) == IF x > o0 THEN Min(o1, x) ELSE o1

RECURSIVE tighten_all(_, _, _, _)
tighten_all(keep, i, o0, o1) ==
    IF i > Len(keep) THEN o1
    ELSE tighten_all(keep, i + 1, o0, tighten(o0, o1, keep[i][1]))

\* lines 102-114: the final pair (o0, o1), or None where lift returns None
bounds(l, m) ==
    LET fp == first_pass(l, m)
    IN  IF fp.o0 = None \/ Val(fp.o0) >= Val(fp.o1) THEN None
        ELSE LET w  == widen_all(fp.keep, 1, Val(fp.o0))
                 t  == tighten_all(fp.keep, 1, w, Val(fp.o1))
             IN  IF w >= t THEN None ELSE Some(<<w, t>>)

\* line 116
midpoint_slip(o0, o1) == o1 + (o1 - o0) \div 2

midpoint(o0, o1) == o0 + (o1 - o0) \div 2

lift(l, m) ==
    LET b == bounds(l, m)
    IN  IF b = None THEN None ELSE Some(midpoint(Val(b)[1], Val(b)[2]))

\* lines 134-135 / 141-142: one coordinate's field under the cut o
lifted_down(v, o, m) == IF v < o THEN v - m ELSE v

lifted(v, o, m) == IF v < o THEN v + m ELSE v

adjust(l, o, m) == [i \in DOMAIN l |-> lifted(l[i], o, m)]

\* ------------------------------------------------------------------ state
VARIABLES
    vals, m, o, adjusted, o2, lpc,      \* lift applied to one axis sequence
    path, changed, text, kpc            \* process_kml on one element

vars == <<vals, m, o, adjusted, o2, lpc, path, changed, text, kpc>>
liftVars == <<vals, m, o, adjusted, o2, lpc>>
kmlVars == <<path, changed, text, kpc>>

\* --------------------------------------- lift on a sequence, then re-lift
InitLift ==
    /\ vals \in SeqsUpTo(Vals, MaxLen)
    /\ m \in Periods
    /\ o = None /\ adjusted = <<>> /\ o2 = None /\ lpc = "call"
    /\ path = <<>> /\ changed = FALSE /\ text = <<>> /\ kpc = "idle"

\* o = lift(l, m)
Solve ==
    /\ lpc = "call"
    /\ o' = lift(vals, m)
    /\ lpc' = "solved"
    /\ UNCHANGED <<vals, m, adjusted, o2>>
    /\ UNCHANGED kmlVars

\* if o is not None: for c in l: if c < o: c += m
Apply ==
    /\ lpc = "solved"
    /\ o # None
    /\ adjusted' = adjust(vals, Val(o), m)
    /\ lpc' = "adjusted"
    /\ UNCHANGED <<vals, m, o, o2>>
    /\ UNCHANGED kmlVars

\* lift again on the adjusted sequence
Resolve ==
    /\ lpc = "adjusted"
    /\ o2' = lift(adjusted, m)
    /\ lpc' = "resolved"
    /\ UNCHANGED <<vals, m, o, adjusted>>
    /\ UNCHANGED kmlVars

NextLift == Solve \/ Apply \/ Resolve

SpecLift == InitLift /\ [][NextLift]_vars

\* ------------------------------------------------ process_kml, one element
longitudes(p) == [i \in DOMAIN p |-> p[i].longitude]
latitudes(p) == [i \in DOMAIN p |-> p[i].latitude]

CoordSet == {Coordinates(lo, la, z) : lo \in LonVals, la \in LatVals, z \in ZVals}

Init ==
    /\ path \in (SeqsUpTo(CoordSet, MaxPts) \ {<<>>})
    /\ changed = FALSE
    /\ text = [i \in DOMAIN path |-> tostring(path[i])]
    /\ kpc = "lon"
    /\ vals = <<>> /\ m = 0 /\ o = None /\ adjusted = <<>> /\ o2 = None
    /\ lpc = "idle"

AdjustLongitude_slip ==
    /\ kpc = "lon"
    /\ LET cut == lift(longitudes(path), 360)
       IN  /\ path' = IF cut = None THEN path
                      ELSE [i \in DOMAIN path |->
                              [path[i] EXCEPT !.longitude = lifted(@, Val(cut), 360),
                                              !.latitude = lifted(@, Val(cut), 360)]]
           /\ changed' = (changed \/ cut # None)
    /\ kpc' = "lat"
    /\ UNCHANGED text
    /\ UNCHANGED liftVars

\* lines 131-136
AdjustLongitude ==
    /\ kpc = "lon"
    /\ LET cut == lift(longitudes(path), 360)
       IN  /\ path' = IF cut = None THEN path
                      ELSE [i \in DOMAIN path |->
                              [path[i] EXCEPT !.longitude = lifted(@, Val(cut), 360)]]
           /\ changed' = (changed \/ cut # None)
    /\ kpc' = "lat"
    /\ UNCHANGED text
    /\ UNCHANGED liftVars

\* lines 138-143
AdjustLatitude ==
    /\ kpc = "lat"
    /\ LET cut == lift(latitudes(path), 180)
       IN  /\ path' = IF cut = None THEN path
                      ELSE [i \in DOMAIN path |->
                              [path[i] EXCEPT !.latitude = lifted(@, Val(cut), 180)]]
           /\ changed' = (changed \/ cut # None)
    /\ kpc' = "write"
    /\ UNCHANGED text
    /\ UNCHANGED liftVars

\* lines 145-146
WriteBack ==
    /\ kpc = "write"
    /\ text' = IF changed THEN [i \in DOMAIN path |-> tostring(path[i])] ELSE text
    /\ kpc' = "done"
    /\ UNCHANGED <<path, changed>>
    /\ UNCHANGED liftVars

Next == AdjustLongitude \/ AdjustLatitude \/ WriteBack

Spec == Init /\ [][Next]_vars

\* ------------------------------------------------- vocabulary of the claims
Abs(x) == IF x < 0 THEN 0 - x ELSE x

Range(l) == {l[i] : i \in DOMAIN l}

Pairs(l) == {<<l[i], l[i + 1]>> : i \in 1..(Len(l) - 1)}

\* |b - a| is the shorter of the two ways round
ShortArc(a, b, mm) == Abs(b - a) = Min((a - b) % mm, (b - a) % mm)

AllMinimal(l, mm) == \A p \in Pairs(l) : ShortArc(p[1], p[2], mm)

\* the raw order of (a, b) contradicts its shorter direction
ViolatingArc(a, b, mm) ==
    IF (a - b) % mm < (b - a) % mm THEN a < b ELSE b < a

HalfPeriodApart(a, b, mm) == 2 * ((a - b) % mm) = mm

InWindow(l, mm) == \A i, j \in DOMAIN l : l[i] - l[j] < mm

Shifted(l, c, mm) == [i \in DOMAIN l |-> IF l[i] < c THEN l[i] + mm ELSE l[i]]

\* one threshold per distinct set {v : v < c} of lifted values
Thresholds(l) == Range(l) \cup {v + 1 : v \in Range(l)}

Fixable(l, mm) == \E c \in Thresholds(l) : AllMinimal(Shifted(l, c, mm), mm)

\* --------------------------------------------------------------- the claims

\* C1: when lift returns a cut for a sequence of at least two values, every
\* adjacent pair of the adjusted sequence has a minimal difference.
C1_Soundness ==
    (lpc = "adjusted" /\ Len(vals) >= 2) => AllMinimal(adjusted, m)

\* C2: lift on the adjusted sequence, with the same period, returns None.
C2_Idempotence == lpc = "resolved" => o2 = None

C4_NoViolationNoCut ==
    (lpc = "solved" /\ \A p \in Pairs(vals) : ~ViolatingArc(p[1], p[2], m))
    => o = None

C4_Witness ==
    /\ lpc = "solved"
    /\ Len(vals) = 3
    /\ vals[1] < vals[2] /\ vals[2] < vals[3]
    /\ \A p \in Pairs(vals) : ~ViolatingArc(p[1], p[2], m)
    /\ o = None

\* C5: an axis adjustment sets changed exactly when lift returns a cut
\* (the flag accumulates over the two axes), adds the period to exactly the
\* values of that axis below the cut, and leaves the other axis, the
\* altitude and the number and order of the coordinates alone.
C5_AxisStep(field, other, period) ==
    LET s   == [i \in DOMAIN path |-> path[i][field]]
        cut == lift(s, period)
    IN  /\ changed' = (changed \/ cut # None)
        /\ DOMAIN path' = DOMAIN path
        /\ \A i \in DOMAIN path :
              /\ path'[i][field] =
                    IF cut # None /\ s[i] < Val(cut) THEN s[i] + period ELSE s[i]
              /\ path'[i][other] = path[i][other]
              /\ path'[i].z = path[i].z

C5_AdjusterFrame ==
    [][/\ kpc = "lon" => (~changed /\ C5_AxisStep("longitude", "latitude", 360))
       /\ kpc = "lat" => C5_AxisStep("latitude", "longitude", 180)]_vars

C5_Witness ==
    /\ kpc = "done"
    /\ changed
    /\ \E i, j \in DOMAIN path : path[i].longitude > 180 /\ path[j].longitude < 180
    /\ \E i \in DOMAIN path : path[i].latitude > 90

\* C6: for inputs inside one window of width m, every adjusted value lies
\* in [o, o + m).
C6_CutStartsRange ==
    (lpc = "adjusted" /\ InWindow(vals, m))
    => \A i \in DOMAIN adjusted :
          Val(o) <= adjusted[i] /\ adjusted[i] < Val(o) + m

C6_Witness ==
    /\ lpc = "adjusted"
    /\ InWindow(vals, m)
    /\ Len(vals) >= 3
    /\ \E i, j \in DOMAIN vals : adjusted[i] # vals[i] /\ adjusted[j] = vals[j]

\* C7: a returned cut never lies strictly inside a keep pair of the first
\* pass.
C7_KeepNotSplit ==
    (lpc = "solved" /\ o # None)
    => LET keep == first_pass(vals, m).keep
       IN  \A i \in DOMAIN keep : ~(keep[i][1] < Val(o) /\ Val(o) < keep[i][2])

\* C8: a returned cut lies strictly inside every violating arc, and lift
\* returns None when the violating arcs' intervals have no common point.
C8_CutInsideViolating ==
    lpc = "solved" =>
      LET V == {p \in Pairs(vals) : ViolatingArc(p[1], p[2], m)}
      IN  /\ o # None =>
                \A p \in V : Min(p[1], p[2]) < Val(o) /\ Val(o) < Max(p[1], p[2])
          /\ (\E p, q \in V : Min(p[1], p[2]) >= Max(q[1], q[2])) => o = None

C8_Witness ==
    /\ lpc = "solved"
    /\ o # None
    /\ \E p, q \in Pairs(vals) :
          /\ ViolatingArc(p[1], p[2], m) /\ ViolatingArc(q[1], q[2], m)
          /\ Min(p[1], p[2]) # Min(q[1], q[2])

\* C9: a pair exactly half a period apart is classified by the ascending
\* branch: kept when a < b, violating with interval [b, a] when b < a; so
\* lift([a, a + m/2], m) is None and lift([a + m/2, a], m) is a + m/4.
C9_HalfPeriodTie ==
    lpc = "solved" =>
      LET fp == first_pass(vals, m)
      IN  /\ \A p \in Pairs(vals) :
                HalfPeriodApart(p[1], p[2], m) =>
                   IF p[1] < p[2]
                   THEN \E i \in DOMAIN fp.keep : fp.keep[i] = p
                   ELSE /\ fp.o0 # None /\ Val(fp.o0) >= p[2]
                        /\ fp.o1 # None /\ Val(fp.o1) <= p[1]
          /\ (Len(vals) = 2 /\ 2 * (vals[2] - vals[1]) = m) => o = None
          /\ (Len(vals) = 2 /\ 2 * (vals[1] - vals[2]) = m)
                => (4 * Val(o) = 4 * vals[2] + m /\ o # None)

C9_Witness ==
    /\ lpc = "solved"
    /\ Len(vals) = 2
    /\ 2 * (vals[1] - vals[2]) = m
    /\ o # None

\* C10: a returned cut has an input value strictly below it and one
\* strictly above it: the final o0 and o1 are input values with
\* o0 < o < o1, so the adjustment changes some value and not all of them.
C10_CutSeparates ==
    /\ (lpc = "solved" /\ o # None) =>
          LET b == Val(bounds(vals, m))
          IN  /\ b[1] \in Range(vals) /\ b[2] \in Range(vals)
              /\ b[1] < Val(o) /\ Val(o) < b[2]
              /\ \E v \in Range(vals) : v < Val(o)
              /\ \E v \in Range(vals) : v > Val(o)
    /\ lpc = "adjusted" =>
          /\ \E i \in DOMAIN vals : adjusted[i] # vals[i]
          /\ \E i \in DOMAIN vals : adjusted[i] = vals[i]

C10_Witness ==
    /\ lpc = "adjusted"
    /\ Len(vals) >= 3
    /\ \E i \in DOMAIN vals : adjusted[i] = vals[i] + m

====
